---- MODULE Spec2Model ----
(***************************************************************************)
(* Model of agent-js/reasoning_agent.js: the session loop of               *)
(* ReasoningAgentJS (reset, decide, submit, record), the parsing of the    *)
(* decision response in callOpenAI, the payload built by doAction and the  *)
(* bounded turn window (turns / flattenTurns / clearHistory).              *)
(*                                                                         *)
(* Representation choices:                                                 *)
(*  - this.frames is read by the code only through its length and its      *)
(*    last element: it is kept as framesLen and latest.                    *)
(*  - this.history and this.screenHistory are never read for their         *)
(*    contents by anything that reaches a request: they are kept as their  *)
(*    lengths historyLen and screenLen.                                    *)
(*  - a JSON value is a record [t, n, s]: t its JavaScript type, n its     *)
(*    numeric value in units of 1/Den, s its string value.                 *)
(*  - a JavaScript object with optional keys is a record with a field      *)
(*    keys (the keys present) beside the values.                           *)
(*  - one ReasoningAgentJS object exists at a time (main() builds one per   *)
(*    game and awaits its loop()): the session variables are those of the   *)
(*    current agent, and every request names the agent that awaits it.      *)
(***************************************************************************)
EXTENDS Integers, Sequences, FiniteSets, TLC

VARIABLES
    pc,             \* position of loop(): start, reset_wait, head, decide_wait,
                    \* submit_wait, won, budget, failed
    guid,           \* this.guid
    framesLen,      \* this.frames.length
    latest,         \* this.frames[this.frames.length - 1]
    historyLen,     \* this.history.length
    screenLen,      \* this.screenHistory.length
    actionCounter,  \* this.actionCounter
    turns,          \* this.turns
    pending,        \* what callOpenAI returned for the turn being submitted
    inflight,       \* the requests awaited by loop() and not yet answered
    warned,         \* whether the last callOpenAI wrote a console.warn line
    decisions,      \* number of openai.responses.create calls issued
    submissions,    \* number of /api/cmd posts issued after the initial RESET
    appended,       \* number of records pushed on this.turns
    mpc,            \* position of main(): open_wait, games_wait, playing,
                    \* close_wait, fail_close_wait, done, rejected
    game,           \* index in games of the game being played (from 1)
    numGames,       \* games.length
    cardId,         \* whether Runtime.cardId is set
    shuttingDown,   \* Runtime.shuttingDown
    closeReqs,      \* the /api/scorecard/close posts awaited, by who posted
    closes,         \* number of /api/scorecard/close posts issued
    armed,          \* the process.once listeners still registered
    exit,           \* running, exit0, exit1, or killed (default signal action)
    reported,       \* whether an error was written with console.error
    fatal           \* whether an exception was thrown in main()

sessionVars == <<pc, guid, framesLen, latest, historyLen, screenLen, actionCounter,
                 turns, pending, inflight, warned, decisions, submissions, appended>>

procVars == <<mpc, game, numGames, cardId, shuttingDown, closeReqs, closes, armed,
              exit, reported, fatal>>

vars == <<pc, guid, framesLen, latest, historyLen, screenLen, actionCounter,
          turns, pending, inflight, warned, decisions, submissions, appended,
          mpc, game, numGames, cardId, shuttingDown, closeReqs, closes, armed,
          exit, reported, fatal>>

----------------------------------------------------------------------------
(* Program constants *)

MAX_ACTIONS == 400

MESSAGE_LIMIT == 5

maxScreenHistory == 10

CoordMin == 0

CoordMax == 63

ACTION_NAME_BY_ID ==
    [i \in 0..7 |-> IF i = 0 THEN "RESET"
                    ELSE <<"ACTION1", "ACTION2", "ACTION3", "ACTION4",
                           "ACTION5", "ACTION6", "ACTION7">>[i]]

DefaultAllowedNames == <<"ACTION1", "ACTION2", "ACTION3", "ACTION4">>

----------------------------------------------------------------------------
(* Bounds of the model *)

\* Turns of a session in which the decision-maker and the game may answer with
\* any of the modelled replies; in later turns they answer with the plain
\* reply, with a WIN frame, or fail.
MaxVaried == 2

\* JSON numbers are multiples of 1/Den.
Den == 2

----------------------------------------------------------------------------
(* JavaScript values and the replies of the two collaborators *)

JV(t, n, s) == [t |-> t, n |-> n, s |-> s]

JNum(n) == JV("number", n, "")

JStr(s) == JV("string", 0, s)

JNull == JV("null", 0, "")

JUndefined == JV("undefined", 0, "")

\* The object {} : every key read from it is undefined.
EmptyArgs == [action |-> JUndefined, x |-> JUndefined, y |-> JUndefined]

Args(a, x, y) == [action |-> a, x |-> x, y |-> y]

\* item.arguments is a string: empty, not JSON, the JSON text null, or the
\* JSON text of an object.
ArgText(form, obj) == [form |-> form, obj |-> obj]

FunctionCall(text, id) == [type |-> "function_call", arguments |-> text, call_id |-> id]

ReasoningItem == [type |-> "reasoning", arguments |-> ArgText("empty", EmptyArgs), call_id |-> ""]

Frame(state, full_reset, ids, g, score) ==
    [state |-> state, full_reset |-> full_reset, available_actions |-> ids,
     guid |-> g, score |-> score]

PlainFrame == Frame("NOT_FINISHED", FALSE, <<>>, "g1", 0)

WinFrame == Frame("WIN", FALSE, <<>>, "g1", 1)

VariedFrames ==
    { PlainFrame,
      Frame("NOT_FINISHED", TRUE, <<1, 2, 6>>, "g2", 0),
      Frame("GAME_OVER", FALSE, <<6>>, "", 0) }

PlainResponse == <<ReasoningItem, FunctionCall(ArgText("object", Args(JStr("ACTION1"), JNull, JNull)), "c1")>>

VariedResponses ==
    { PlainResponse,
      <<ReasoningItem>>,
      <<FunctionCall(ArgText("invalid", EmptyArgs), "c2")>>,
      <<FunctionCall(ArgText("object", Args(JStr("ACTION5"), JUndefined, JUndefined)), "")>>,
      <<FunctionCall(ArgText("object", Args(JStr("ACTION6"), JNum(70 * Den), JNum(-1 * Den))), "c4")>> }

FullResetFrame == Frame("NOT_FINISHED", TRUE, <<1, 2, 6>>, "g2", 0)

WinResetFrame == Frame("WIN", TRUE, <<>>, "g1", 1)

\* The frames and responses the collaborators may answer with in turn n: the
\* game varies its frames in the first MaxVaried turns and, for full resets,
\* again in the last MaxVaried turns of the budget.
Frames(n) ==
    IF n < MaxVaried THEN VariedFrames \cup {WinFrame, WinResetFrame}
    ELSE IF n >= MAX_ACTIONS - MaxVaried
         THEN {PlainFrame, WinFrame, FullResetFrame, WinResetFrame}
         ELSE {PlainFrame, WinFrame}

Responses(n) == IF n < MaxVaried THEN VariedResponses ELSE {PlainResponse}

----------------------------------------------------------------------------
(* callOpenAI: permitted names, parsing of the response *)

RECURSIVE MapNames(_)
\* allowedIds.map((id) => ACTION_NAME_BY_ID[id]).filter(Boolean)
MapNames(ids) ==
    IF ids = <<>> THEN <<>>
    ELSE LET h == Head(ids)
             rest == MapNames(Tail(ids))
         IN IF h \in DOMAIN ACTION_NAME_BY_ID
            THEN <<ACTION_NAME_BY_ID[h]>> \o rest
            ELSE rest

AllowedNames(frame) ==
    LET allowedIds == frame.available_actions
        names == IF Len(allowedIds) > 0 THEN MapNames(allowedIds) ELSE DefaultAllowedNames
    IN Append(names, "RESET")

\* JSON.parse(item.arguments) || {} inside try/catch, {} when arguments is empty
ParseArguments(text) == IF text.form = "object" THEN text.obj ELSE EmptyArgs

\* Math.trunc on a number given in units of 1/Den
Trunc(v) == IF v >= 0 THEN v \div Den ELSE -((-v) \div Den)

Max(a, b) == IF a >= b THEN a ELSE b

Min(a, b) == IF a <= b THEN a ELSE b

\* a clamp without the upper limit
ClampNoUpper(v) == Max(CoordMin, Trunc(v))

\* Math.min(63, Math.max(0, Math.trunc(x)))
Clamp(v) == Min(CoordMax, Max(CoordMin, Trunc(v)))

NoData == [present |-> FALSE, x |-> 0, y |-> 0]

Data(x, y) == [present |-> TRUE, x |-> x, y |-> y]

\* each coordinate is sanitized on its own: a valid one is kept when the other
\* is missing
CoordDataKeepsValid(args) ==
    Data(IF args.x.t = "number" THEN Clamp(args.x.n) ELSE 0,
         IF args.y.t = "number" THEN Clamp(args.y.n) ELSE 0)

\* the ACTION6 branch: x and y are kept only when typeof is 'number'
CoordData(args) ==
    IF args.x.t = "number" /\ args.y.t = "number"
    THEN Data(Clamp(args.x.n), Clamp(args.y.n))
    ELSE Data(0, 0)

\* index of the first function_call item of the output, 0 when there is none
FirstFunctionCall(output) ==
    LET idx == {i \in 1..Len(output) : output[i].type = "function_call"}
    IN IF idx = {} THEN 0 ELSE CHOOSE i \in idx : \A j \in idx : i <= j

ActionNameOf(args) == IF args.action.t = "string" THEN args.action.s ELSE "RESET"

\* coordinates are read for every action, not only for ACTION6
ParseDecisionAlwaysCoords(output) ==
    LET i == FirstFunctionCall(output)
    IN IF i = 0
       THEN [actionName |-> "RESET", actionData |-> NoData, functionCallId |-> "", warned |-> FALSE]
       ELSE LET args == ParseArguments(output[i].arguments)
                name == ActionNameOf(args)
            IN [actionName |-> name,
                actionData |-> CoordData(args),
                functionCallId |-> output[i].call_id,
                warned |-> ~(args.x.t = "number" /\ args.y.t = "number")]

\* the loop over response.output: actionName, actionData, functionCallId and
\* whether console.warn was called
ParseDecision(output) ==
    LET i == FirstFunctionCall(output)
    IN IF i = 0
       THEN [actionName |-> "RESET", actionData |-> NoData, functionCallId |-> "", warned |-> FALSE]
       ELSE LET args == ParseArguments(output[i].arguments)
                name == ActionNameOf(args)
            IN [actionName |-> name,
                actionData |-> IF name = "ACTION6" THEN CoordData(args) ELSE NoData,
                functionCallId |-> output[i].call_id,
                warned |-> name = "ACTION6" /\ ~(args.x.t = "number" /\ args.y.t = "number")]

UserMessage(frame, index) == [type |-> "user", allowed |-> AllowedNames(frame), shows |-> index]

----------------------------------------------------------------------------
(* The turn window *)

RECURSIVE Flat(_)
\* Array.prototype.flat on an array of arrays
Flat(ss) == IF ss = <<>> THEN <<>> ELSE Head(ss) \o Flat(Tail(ss))

\* this.turns.slice(-MESSAGE_LIMIT) / slice(Math.max(0, length - MESSAGE_LIMIT))
SliceLast(ts) == SubSeq(ts, Max(0, Len(ts) - MESSAGE_LIMIT) + 1, Len(ts))

flattenTurns(ts) == Flat(SliceLast(ts))

\* a push without the MESSAGE_LIMIT cut
PushTurnNoCut(ts, rec) == Append(ts, rec)

\* push of the turn, then the MESSAGE_LIMIT cut
PushTurn(ts, rec) ==
    LET pushed == Append(ts, rec)
    IN IF Len(pushed) > MESSAGE_LIMIT THEN SliceLast(pushed) ELSE pushed

ToolOutput(p, next) ==
    [type |-> "function_call_output",
     call_id |-> IF p.functionCallId # "" THEN p.functionCallId ELSE "call_0",
     action |-> p.actionName, data |-> p.actionData,
     state |-> next.state, full_reset |-> next.full_reset, score |-> next.score]

TurnRecord(p, next) == <<p.userMessage>> \o p.responseOutputItems \o <<ToolOutput(p, next)>>

----------------------------------------------------------------------------
(* buildReasoningTools: the schema of the choose_action tool *)

\* one entry of properties; hasLength / hasRange tell whether the length and
\* the minimum / maximum keywords are present
Property(types, enum, hasLength, minLength, maxLength, hasRange, minimum, maximum) ==
    [types |-> types, enum |-> enum,
     hasLength |-> hasLength, minLength |-> minLength, maxLength |-> maxLength,
     hasRange |-> hasRange, minimum |-> minimum, maximum |-> maximum]

TextProperty(minLength, maxLength) ==
    Property({"string"}, <<>>, TRUE, minLength, maxLength, FALSE, 0, 0)

ActionProperty(allowedNames) ==
    Property({"string"}, allowedNames, FALSE, 0, 0, FALSE, 0, 0)

CoordProperty == Property({"integer", "null"}, <<>>, FALSE, 0, 0, TRUE, CoordMin, CoordMax)

BaseKeys == {"reason", "short_description", "hypothesis", "aggregated_findings", "action"}

SeqHas(seq, e) == \E i \in 1..Len(seq) : seq[i] = e

BaseProperty(allowedNames, k) ==
    IF k = "action" THEN ActionProperty(allowedNames)
    ELSE IF k = "short_description" THEN TextProperty(5, 500)
    ELSE TextProperty(10, 2000)

buildReasoningTools(allowedNames) ==
    LET withCoords == SeqHas(allowedNames, "ACTION6")
        keys == BaseKeys \cup (IF withCoords THEN {"x", "y"} ELSE {})
    IN [type |-> "function",
        name |-> "choose_action",
        strict |-> TRUE,
        parameters |->
          [type |-> "object",
           properties |-> [k \in keys |->
                             IF k \in {"x", "y"} THEN CoordProperty
                             ELSE BaseProperty(allowedNames, k)],
           required |-> <<"reason", "short_description", "hypothesis",
                          "aggregated_findings", "action">>
                        \o (IF withCoords THEN <<"x", "y">> ELSE <<>>),
           additionalProperties |-> FALSE]]

----------------------------------------------------------------------------
(* doAction: the payload posted to /api/cmd/<actionName> *)

\* a payload that never carries this.guid
PayloadNoGuid(g, actionName, actionData) ==
    [keys |-> {"game_id", "reasoning"}
              \cup (IF actionName = "RESET" THEN {"card_id"} ELSE {})
              \cup (IF actionName = "ACTION6" /\ actionData.present THEN {"x", "y"} ELSE {}),
     game_id |-> game,
     guid |-> "",
     x |-> IF actionName = "ACTION6" /\ actionData.present THEN actionData.x ELSE 0,
     y |-> IF actionName = "ACTION6" /\ actionData.present THEN actionData.y ELSE 0]

\* basePayload; this.cardId is the non-empty id of the opened scorecard and
\* reasoningMeta is an object at both call sites
Payload(g, actionName, actionData) ==
    [keys |-> {"game_id", "reasoning"}
              \cup (IF g # "" THEN {"guid"} ELSE {})
              \cup (IF actionName = "RESET" THEN {"card_id"} ELSE {})
              \cup (IF actionName = "ACTION6" /\ actionData.present THEN {"x", "y"} ELSE {}),
     game_id |-> game,
     guid |-> g,
     x |-> IF actionName = "ACTION6" /\ actionData.present THEN actionData.x ELSE 0,
     y |-> IF actionName = "ACTION6" /\ actionData.present THEN actionData.y ELSE 0]

CmdRequest(g, actionName, actionData) ==
    [kind |-> "cmd", agent |-> game, name |-> actionName,
     payload |-> Payload(g, actionName, actionData)]

\* createPayload: input, tools
DecisionRequest(ts, frame, index) ==
    [kind |-> "decision", agent |-> game,
     input |-> Append(flattenTurns(ts), UserMessage(frame, index)),
     allowed |-> AllowedNames(frame),
     tools |-> buildReasoningTools(AllowedNames(frame))]

\* the token of the answer is dropped
NextGuidKeep(g, data) == g

\* if (data?.guid) this.guid = data.guid
NextGuid(g, data) == IF data.guid # "" THEN data.guid ELSE g

NoFrame == Frame("", FALSE, <<>>, "", 0)

NoPending ==
    [actionName |-> "", actionData |-> NoData, responseOutputItems |-> <<>>,
     userMessage |-> [type |-> "none", allowed |-> <<>>, shows |-> 0],
     functionCallId |-> ""]

----------------------------------------------------------------------------
(* The session: constructor and loop() *)

Listeners == {"SIGINT", "SIGTERM", "uncaughtException", "unhandledRejection"}

\* the fields of a new ReasoningAgentJS, and the counters of its calls
SessionInit ==
    /\ pc = "start"
    /\ guid = ""
    /\ framesLen = 0
    /\ latest = NoFrame
    /\ historyLen = 0
    /\ screenLen = 0
    /\ actionCounter = 0
    /\ turns = <<>>
    /\ pending = NoPending
    /\ inflight = {}
    /\ warned = FALSE
    /\ decisions = 0
    /\ submissions = 0
    /\ appended = 0

\* main() has opened the scorecard and awaits the loop() of the agent of its
\* only game
Init ==
    /\ SessionInit
    /\ mpc = "playing"
    /\ game = 1
    /\ numGames = 1
    /\ cardId = TRUE
    /\ shuttingDown = FALSE
    /\ closeReqs = {}
    /\ closes = 0
    /\ armed = Listeners
    /\ exit = "running"
    /\ reported = FALSE
    /\ fatal = FALSE

\* an off-by-one loop condition
LoopGuardInclusive(n) == n <= MAX_ACTIONS

\* while (this.actionCounter < MAX_ACTIONS)
LoopGuard(n) == n < MAX_ACTIONS

\* a WIN check that never matches
IsWinNever(frame) == FALSE

\* latest?.state === 'WIN'
IsWin(frame) == frame.state = "WIN"

\* clearHistory(): the lengths of history and screenHistory after it
clearHistory(h) == 0

\* loop() is called: the initial RESET is posted
StartLoop ==
    /\ pc = "start"
    /\ inflight' = inflight \cup {CmdRequest(guid, "RESET", NoData)}
    /\ pc' = "reset_wait"
    /\ UNCHANGED <<guid, framesLen, latest, historyLen, screenLen, actionCounter,
                   turns, pending, warned, decisions, submissions, appended>>

\* the initial RESET counted as an action
ResetReturnsCounts(firstFrame) ==
    /\ pc = "reset_wait"
    /\ inflight' = {}
    /\ guid' = NextGuid(guid, firstFrame)
    /\ framesLen' = framesLen + 1
    /\ latest' = firstFrame
    /\ actionCounter' = actionCounter + 1
    /\ pc' = "head"
    /\ UNCHANGED <<historyLen, screenLen, turns, pending, warned,
                   decisions, submissions, appended>>

\* the initial RESET is answered with firstFrame
ResetReturns(firstFrame) ==
    /\ pc = "reset_wait"
    /\ inflight' = {}
    /\ guid' = NextGuid(guid, firstFrame)
    /\ framesLen' = framesLen + 1
    /\ latest' = firstFrame
    /\ pc' = "head"
    /\ UNCHANGED <<historyLen, screenLen, actionCounter, turns, pending, warned,
                   decisions, submissions, appended>>

\* a rejection that still pushes the unfinished turn on the window
RequestFailsRecords ==
    /\ pc \in {"reset_wait", "decide_wait", "submit_wait"}
    /\ inflight' = {}
    /\ pc' = "failed"
    /\ turns' = PushTurn(turns, <<pending.userMessage>> \o pending.responseOutputItems)
    /\ appended' = appended + 1
    /\ UNCHANGED <<guid, framesLen, latest, historyLen, screenLen, actionCounter,
                   pending, warned, decisions, submissions>>

\* an awaited request rejects: the exception leaves loop()
RequestFails ==
    /\ pc \in {"reset_wait", "decide_wait", "submit_wait"}
    /\ inflight' = {}
    /\ pc' = "failed"
    /\ UNCHANGED <<guid, framesLen, latest, historyLen, screenLen, actionCounter,
                   turns, pending, warned, decisions, submissions, appended>>

\* the while condition is false
ExitBudget ==
    /\ pc = "head"
    /\ ~LoopGuard(actionCounter)
    /\ pc' = "budget"
    /\ UNCHANGED <<guid, framesLen, latest, historyLen, screenLen, actionCounter,
                   turns, pending, inflight, warned, decisions, submissions, appended>>

\* break on WIN
ExitWin ==
    /\ pc = "head"
    /\ LoopGuard(actionCounter)
    /\ IsWin(latest)
    /\ pc' = "won"
    /\ UNCHANGED <<guid, framesLen, latest, historyLen, screenLen, actionCounter,
                   turns, pending, inflight, warned, decisions, submissions, appended>>

\* callOpenAI up to its await: the decision request is sent
Decide ==
    /\ pc = "head"
    /\ LoopGuard(actionCounter)
    /\ ~IsWin(latest)
    /\ inflight' = inflight \cup {DecisionRequest(turns, latest, framesLen - 1)}
    /\ pending' = [NoPending EXCEPT !.userMessage = UserMessage(latest, framesLen - 1)]
    /\ decisions' = decisions + 1
    /\ pc' = "decide_wait"
    /\ UNCHANGED <<guid, framesLen, latest, historyLen, screenLen, actionCounter,
                   turns, warned, submissions, appended>>

\* the submission is posted while the decision request is still awaited
DecisionReturnsNoAwait(output) ==
    /\ pc = "decide_wait"
    /\ LET d == ParseDecision(output)
       IN /\ pending' = [pending EXCEPT !.actionName = d.actionName,
                                        !.actionData = d.actionData,
                                        !.responseOutputItems = output,
                                        !.functionCallId = d.functionCallId]
          /\ warned' = d.warned
          /\ inflight' = inflight \cup {CmdRequest(guid, d.actionName, d.actionData)}
    /\ screenLen' = Min(screenLen + 1, maxScreenHistory)
    /\ historyLen' = historyLen + 1
    /\ submissions' = submissions + 1
    /\ pc' = "submit_wait"
    /\ UNCHANGED <<guid, framesLen, latest, actionCounter, turns, decisions, appended>>

\* the response arrives: the rest of callOpenAI, the two history pushes and
\* doAction up to its await
DecisionReturns(output) ==
    /\ pc = "decide_wait"
    /\ LET d == ParseDecision(output)
       IN /\ pending' = [pending EXCEPT !.actionName = d.actionName,
                                        !.actionData = d.actionData,
                                        !.responseOutputItems = output,
                                        !.functionCallId = d.functionCallId]
          /\ warned' = d.warned
          /\ inflight' = {CmdRequest(guid, d.actionName, d.actionData)}
    /\ screenLen' = Min(screenLen + 1, maxScreenHistory)
    /\ historyLen' = historyLen + 1
    /\ submissions' = submissions + 1
    /\ pc' = "submit_wait"
    /\ UNCHANGED <<guid, framesLen, latest, actionCounter, turns, decisions, appended>>

\* a full reset also restarts the action counter
SubmitReturnsRestartsCounter(next) ==
    /\ pc = "submit_wait"
    /\ inflight' = {}
    /\ guid' = NextGuid(guid, next)
    /\ framesLen' = framesLen + 1
    /\ latest' = next
    /\ actionCounter' = IF next.full_reset THEN 0 ELSE actionCounter + 1
    /\ turns' = PushTurn(turns, TurnRecord(pending, next))
    /\ appended' = appended + 1
    /\ historyLen' = IF next.full_reset THEN clearHistory(historyLen) ELSE historyLen
    /\ screenLen' = IF next.full_reset THEN clearHistory(screenLen) ELSE screenLen
    /\ pending' = NoPending
    /\ pc' = "head"
    /\ UNCHANGED <<warned, decisions, submissions>>

\* the game answers with the next frame: the rest of the iteration
SubmitReturns(next) ==
    /\ pc = "submit_wait"
    /\ inflight' = {}
    /\ guid' = NextGuid(guid, next)
    /\ framesLen' = framesLen + 1
    /\ latest' = next
    /\ actionCounter' = actionCounter + 1
    /\ turns' = PushTurn(turns, TurnRecord(pending, next))
    /\ appended' = appended + 1
    /\ historyLen' = IF next.full_reset THEN clearHistory(historyLen) ELSE historyLen
    /\ screenLen' = IF next.full_reset THEN clearHistory(screenLen) ELSE screenLen
    /\ pending' = NoPending
    /\ pc' = "head"
    /\ UNCHANGED <<warned, decisions, submissions>>

\* loop() runs while main() awaits it and the process lives
LoopRuns == mpc = "playing" /\ exit = "running"

Next ==
    \/ LoopRuns /\ StartLoop /\ UNCHANGED procVars
    \/ LoopRuns /\ (\E f \in Frames(0) : ResetReturns(f)) /\ UNCHANGED procVars
    \/ LoopRuns /\ RequestFails /\ UNCHANGED procVars
    \/ LoopRuns /\ ExitBudget /\ UNCHANGED procVars
    \/ LoopRuns /\ ExitWin /\ UNCHANGED procVars
    \/ LoopRuns /\ Decide /\ UNCHANGED procVars
    \/ LoopRuns /\ (\E r \in Responses(actionCounter) : DecisionReturns(r)) /\ UNCHANGED procVars
    \/ LoopRuns /\ (\E f \in Frames(actionCounter) : SubmitReturns(f)) /\ UNCHANGED procVars

Spec == Init /\ [][Next]_vars

----------------------------------------------------------------------------
(* The first turns of a session with ACTION6 decisions over a range of
   coordinate values *)

\* Turns played in CoordSpec and in SchemaSpec.
MaxCoordTurns == 1

CoordNumbers ==
    { -1 * Den, -1, 0, 1, Den, CoordMax * Den - 1, CoordMax * Den,
      CoordMax * Den + 1, 70 * Den }

CoordValues == {JNum(n) : n \in CoordNumbers} \cup {JNull, JUndefined, JStr("5")}

CoordResponses ==
    { <<FunctionCall(ArgText("object", Args(JStr("ACTION6"), x, y)), "c6")>> :
        x \in CoordValues, y \in CoordValues }
    \cup
    { <<FunctionCall(ArgText("object", Args(JStr("ACTION2"), x, y)), "c7")>> :
        x \in {JNum(5 * Den), JNull}, y \in {JNum(5 * Den), JNull} }

CoordFrames == {PlainFrame, Frame("NOT_FINISHED", FALSE, <<6>>, "g1", 0)}

CoordNext ==
    \/ LoopRuns /\ StartLoop /\ UNCHANGED procVars
    \/ LoopRuns /\ (\E f \in CoordFrames : ResetReturns(f)) /\ UNCHANGED procVars
    \/ LoopRuns /\ RequestFails /\ UNCHANGED procVars
    \/ LoopRuns /\ (actionCounter < MaxCoordTurns /\ Decide) /\ UNCHANGED procVars
    \/ LoopRuns /\ (\E r \in CoordResponses : DecisionReturns(r)) /\ UNCHANGED procVars
    \/ LoopRuns /\ (\E f \in CoordFrames : SubmitReturns(f)) /\ UNCHANGED procVars

CoordSpec == Init /\ [][CoordNext]_vars

----------------------------------------------------------------------------
(* The first turns of a session over a range of available_actions lists *)

\* Longest available_actions list in SchemaSpec.
MaxIds == 2

\* ids with a name (0 is RESET), the coordinate action, and one without a name
SchemaIds == {0, 1, 6, 8}

RECURSIVE SeqsUpTo(_, _)
SeqsUpTo(S, n) ==
    IF n = 0 THEN {<<>>}
    ELSE LET shorter == SeqsUpTo(S, n - 1)
         IN shorter \cup {Append(q, e) : q \in shorter, e \in S}

SchemaFrames == {Frame("NOT_FINISHED", FALSE, ids, "g1", 0) : ids \in SeqsUpTo(SchemaIds, MaxIds)}

SchemaNext ==
    \/ LoopRuns /\ StartLoop /\ UNCHANGED procVars
    \/ LoopRuns /\ (\E f \in SchemaFrames : ResetReturns(f)) /\ UNCHANGED procVars
    \/ LoopRuns /\ RequestFails /\ UNCHANGED procVars
    \/ LoopRuns /\ (actionCounter < MaxCoordTurns /\ Decide) /\ UNCHANGED procVars
    \/ LoopRuns /\ DecisionReturns(PlainResponse) /\ UNCHANGED procVars
    \/ LoopRuns /\ (\E f \in SchemaFrames : SubmitReturns(f)) /\ UNCHANGED procVars

SchemaSpec == Init /\ [][SchemaNext]_vars

(* main(), Runtime, closeScorecardIfOpen and registerShutdownHandlers       *)

NumGames == 2

\* the replies of the game service while main() runs the agents
MainFrames == {PlainFrame, WinFrame}

\* the body of `handler`: closeScorecardIfOpen(sig).finally(process.exit(0)),
\* up to its first await
Handler ==
    IF shuttingDown
    THEN /\ exit' = "exit0"
         /\ UNCHANGED <<shuttingDown, closeReqs, closes>>
    ELSE /\ shuttingDown' = TRUE
         /\ IF cardId
            THEN /\ closeReqs' = closeReqs \cup {"handler"}
                 /\ closes' = closes + 1
                 /\ exit' = exit
            ELSE /\ exit' = "exit0"
                 /\ UNCHANGED <<closeReqs, closes>>

\* main() or the agent it awaits is suspended at an await: the only places
\* where an event of the process can be handled
AtAwait ==
    \/ mpc \in {"open_wait", "games_wait", "close_wait", "fail_close_wait", "done"}
    \/ mpc = "playing" /\ pc \in {"reset_wait", "decide_wait", "submit_wait"}

\* the catch block of main(), up to its await
Catch ==
    /\ reported' = TRUE
    /\ fatal' = TRUE
    /\ IF shuttingDown
       THEN /\ exit' = "exit1"
            /\ UNCHANGED <<mpc, closeReqs, closes>>
       ELSE /\ mpc' = "fail_close_wait"
            /\ closeReqs' = closeReqs \cup {"main"}
            /\ closes' = closes + 1
            /\ exit' = exit

\* new ReasoningAgentJS(...)
NewAgent ==
    /\ pc' = "start"
    /\ guid' = ""
    /\ framesLen' = 0
    /\ latest' = NoFrame
    /\ historyLen' = 0
    /\ screenLen' = 0
    /\ actionCounter' = 0
    /\ turns' = <<>>
    /\ pending' = NoPending
    /\ inflight' = {}
    /\ warned' = FALSE
    /\ decisions' = 0
    /\ submissions' = 0
    /\ appended' = 0

MainInit ==
    /\ SessionInit
    /\ mpc = "start"
    /\ game = 0
    /\ numGames = 0
    /\ cardId = FALSE
    /\ shuttingDown = FALSE
    /\ closeReqs = {}
    /\ closes = 0
    /\ armed = Listeners
    /\ exit = "running"
    /\ reported = FALSE
    /\ fatal = FALSE

\* ARC_API_KEY or OPENAI_API_KEY is missing
MissingKey ==
    /\ exit = "running" /\ mpc = "start"
    /\ reported' = TRUE
    /\ exit' = "exit1"
    /\ UNCHANGED <<mpc, game, numGames, cardId, shuttingDown, closeReqs, closes,
                   armed, fatal>>
    /\ UNCHANGED sessionVars

OpenScorecard ==
    /\ exit = "running" /\ mpc = "start"
    /\ mpc' = "open_wait"
    /\ UNCHANGED <<game, numGames, cardId, shuttingDown, closeReqs, closes, armed,
                   exit, reported, fatal>>
    /\ UNCHANGED sessionVars

\* the scorecard is open; main() enters its try block and asks for the games
OpenReturns ==
    /\ exit = "running" /\ mpc = "open_wait"
    /\ cardId' = TRUE
    /\ mpc' = "games_wait"
    /\ UNCHANGED <<game, numGames, shuttingDown, closeReqs, closes, armed, exit,
                   reported, fatal>>
    /\ UNCHANGED sessionVars

\* the post of /api/scorecard/open throws outside the try block: the promise
\* of main() rejects, nothing handles it, and the unhandledRejection listener
\* runs
OpenFails ==
    /\ exit = "running" /\ mpc = "open_wait"
    /\ "unhandledRejection" \in armed
    /\ mpc' = "rejected"
    /\ fatal' = TRUE
    /\ reported' = TRUE
    /\ armed' = armed \ {"unhandledRejection"}
    /\ Handler
    /\ UNCHANGED <<game, numGames, cardId>>
    /\ UNCHANGED sessionVars

\* GET /api/games returned n games after the filter
GamesReturn(n) ==
    /\ exit = "running" /\ mpc = "games_wait"
    /\ numGames' = n
    /\ IF n = 0
       THEN /\ Catch
            /\ UNCHANGED <<game, cardId, shuttingDown, armed>>
            /\ UNCHANGED sessionVars
       ELSE /\ mpc' = "playing"
            /\ game' = 1
            /\ NewAgent
            /\ UNCHANGED <<cardId, shuttingDown, closeReqs, closes, armed, exit,
                           reported, fatal>>

GamesFails ==
    /\ exit = "running" /\ mpc = "games_wait"
    /\ Catch
    /\ UNCHANGED <<game, numGames, cardId, shuttingDown, armed>>
    /\ UNCHANGED sessionVars

NextAgentNoAwait ==
    /\ exit = "running" /\ mpc = "playing"
    /\ pc \in {"reset_wait", "decide_wait", "submit_wait"}
    /\ game < numGames
    /\ game' = game + 1
    /\ pc' = "start"
    /\ UNCHANGED <<guid, framesLen, latest, historyLen, screenLen, actionCounter,
                   turns, pending, inflight, warned, decisions, submissions,
                   appended>>
    /\ UNCHANGED <<mpc, numGames, cardId, shuttingDown, closeReqs, closes, armed,
                   exit, reported, fatal>>

\* agent.loop() returned and another game is left
NextAgent ==
    /\ exit = "running" /\ mpc = "playing"
    /\ pc \in {"won", "budget"}
    /\ game < numGames
    /\ game' = game + 1
    /\ NewAgent
    /\ UNCHANGED <<mpc, numGames, cardId, shuttingDown, closeReqs, closes, armed,
                   exit, reported, fatal>>

\* agent.loop() of the last game returned
GamesPlayed ==
    /\ exit = "running" /\ mpc = "playing"
    /\ pc \in {"won", "budget"}
    /\ game = numGames
    /\ IF shuttingDown
       THEN /\ mpc' = "done"
            /\ UNCHANGED <<closeReqs, closes>>
       ELSE /\ mpc' = "close_wait"
            /\ closeReqs' = closeReqs \cup {"main"}
            /\ closes' = closes + 1
    /\ UNCHANGED <<game, numGames, cardId, shuttingDown, armed, exit, reported,
                   fatal>>
    /\ UNCHANGED sessionVars

LoopThrowsContinues ==
    /\ exit = "running" /\ mpc = "playing"
    /\ pc = "failed"
    /\ game' = game
    /\ NewAgent
    /\ UNCHANGED <<mpc, numGames, cardId, shuttingDown, closeReqs, closes, armed,
                   exit, reported, fatal>>

\* agent.loop() threw: the catch block of main()
LoopThrows ==
    /\ exit = "running" /\ mpc = "playing"
    /\ pc = "failed"
    /\ Catch
    /\ UNCHANGED <<game, numGames, cardId, shuttingDown, armed>>
    /\ UNCHANGED sessionVars

\* the close of the normal path returned: main() returns
CloseReturns ==
    /\ exit = "running" /\ mpc = "close_wait"
    /\ shuttingDown' = TRUE
    /\ closeReqs' = closeReqs \ {"main"}
    /\ mpc' = "done"
    /\ UNCHANGED <<game, numGames, cardId, closes, armed, exit, reported, fatal>>
    /\ UNCHANGED sessionVars

\* the close of the normal path threw, inside the try block; the catch
\* block posts its own close when shuttingDown is still false
CloseFails ==
    /\ exit = "running" /\ mpc = "close_wait"
    /\ reported' = TRUE
    /\ fatal' = TRUE
    /\ IF shuttingDown
       THEN /\ exit' = "exit1"
            /\ closeReqs' = closeReqs \ {"main"}
            /\ UNCHANGED <<mpc, closes>>
       ELSE /\ mpc' = "fail_close_wait"
            /\ closeReqs' = closeReqs
            /\ closes' = closes + 1
            /\ exit' = exit
    /\ UNCHANGED <<game, numGames, cardId, shuttingDown, armed>>
    /\ UNCHANGED sessionVars

FailCloseSettlesMasks(ok) ==
    /\ exit = "running" /\ mpc = "fail_close_wait"
    /\ shuttingDown' = (shuttingDown \/ ok)
    /\ closeReqs' = closeReqs \ {"main"}
    /\ mpc' = "exiting"
    /\ exit' = IF ok THEN "exit1" ELSE "exit0"
    /\ UNCHANGED <<game, numGames, cardId, closes, armed, reported, fatal>>
    /\ UNCHANGED sessionVars

\* the close of the catch block returned (ok) or threw (swallowed by the
\* inner catch): process.exit(1)
FailCloseSettles(ok) ==
    /\ exit = "running" /\ mpc = "fail_close_wait"
    /\ shuttingDown' = (shuttingDown \/ ok)
    /\ closeReqs' = closeReqs \ {"main"}
    /\ mpc' = "exiting"
    /\ exit' = "exit1"
    /\ UNCHANGED <<game, numGames, cardId, closes, armed, reported, fatal>>
    /\ UNCHANGED sessionVars

\* SIGINT or SIGTERM while its listener is registered
Signal(sig) ==
    /\ exit = "running" /\ AtAwait
    /\ sig \in armed
    /\ armed' = armed \ {sig}
    /\ Handler
    /\ UNCHANGED <<mpc, game, numGames, cardId, reported, fatal>>
    /\ UNCHANGED sessionVars

\* the same signal again: process.once removed the listener, the default
\* action of the signal ends the process
SignalDefault(sig) ==
    /\ exit = "running" /\ AtAwait
    /\ sig \notin armed
    /\ exit' = "killed"
    /\ UNCHANGED <<mpc, game, numGames, cardId, shuttingDown, closeReqs, closes,
                   armed, reported, fatal>>
    /\ UNCHANGED sessionVars

\* the close posted by closeScorecardIfOpen returned or threw (caught and
\* logged there): finally, process.exit(0)
HandlerCloseSettles ==
    /\ exit = "running" /\ AtAwait
    /\ "handler" \in closeReqs
    /\ closeReqs' = closeReqs \ {"handler"}
    /\ exit' = "exit0"
    /\ UNCHANGED <<mpc, game, numGames, cardId, shuttingDown, closes, armed,
                   reported, fatal>>
    /\ UNCHANGED sessionVars

\* main() returned and nothing is awaited: the process ends with status 0
NaturalExit ==
    /\ exit = "running" /\ mpc = "done"
    /\ closeReqs = {}
    /\ exit' = "exit0"
    /\ UNCHANGED <<mpc, game, numGames, cardId, shuttingDown, closeReqs, closes,
                   armed, reported, fatal>>
    /\ UNCHANGED sessionVars

MainNext ==
    \/ MissingKey
    \/ OpenScorecard
    \/ OpenReturns
    \/ OpenFails
    \/ \E n \in 0..NumGames : GamesReturn(n)
    \/ GamesFails
    \/ LoopRuns /\ StartLoop /\ UNCHANGED procVars
    \/ LoopRuns /\ (\E f \in MainFrames : ResetReturns(f)) /\ UNCHANGED procVars
    \/ LoopRuns /\ RequestFails /\ UNCHANGED procVars
    \/ LoopRuns /\ ExitBudget /\ UNCHANGED procVars
    \/ LoopRuns /\ ExitWin /\ UNCHANGED procVars
    \/ LoopRuns /\ Decide /\ UNCHANGED procVars
    \/ LoopRuns /\ DecisionReturns(PlainResponse) /\ UNCHANGED procVars
    \/ LoopRuns /\ (\E f \in MainFrames : SubmitReturns(f)) /\ UNCHANGED procVars
    \/ NextAgent
    \/ GamesPlayed
    \/ LoopThrows
    \/ CloseReturns
    \/ CloseFails
    \/ \E ok \in BOOLEAN : FailCloseSettles(ok)
    \/ \E sig \in {"SIGINT", "SIGTERM"} : Signal(sig)
    \/ \E sig \in {"SIGINT", "SIGTERM"} : SignalDefault(sig)
    \/ HandlerCloseSettles
    \/ NaturalExit

MainSpec == MainInit /\ [][MainNext]_vars

\* Every awaited request settles (the game client has a 15 s timeout, the
\* decision client its own), and the continuation then runs.
FairSpec == Spec /\ WF_vars(Next)

Terminal == {"won", "budget", "failed"}

Range(seq) == {seq[i] : i \in 1..Len(seq)}

DecisionsInFlight == {r \in inflight : r.kind = "decision"}

CmdsInFlight == {r \in inflight : r.kind = "cmd"}

----------------------------------------------------------------------------
(* C1 *)

\* C1: after a submission returned a frame with full_reset = true, the input
\* of the next decision call holds nothing but the new user message (the
\* flattened window is empty).
C1_ResetLaw ==
    (pc = "decide_wait" /\ latest.full_reset /\ actionCounter > 0)
        => \A r \in DecisionsInFlight : Len(r.input) = 1

----------------------------------------------------------------------------
(* C2 *)

RECURSIVE SumLen(_)
SumLen(ss) == IF ss = <<>> THEN 0 ELSE Len(Head(ss)) + SumLen(Tail(ss))

\* the record at position i of the window is the record of turn number t
\* (turns are numbered from 0): it opens with the prompt that showed frame t,
\* carries output items only in the middle and closes with its tool outcome
IsRecordOfTurn(rec, t) ==
    /\ Len(rec) >= 2
    /\ rec[1].type = "user" /\ rec[1].shows = t
    /\ rec[Len(rec)].type = "function_call_output"
    /\ \A j \in 2..(Len(rec) - 1) : rec[j].type \in {"reasoning", "function_call"}

C2_WindowInv ==
    LET n == actionCounter
        k == MESSAGE_LIMIT
        fl == flattenTurns(turns)
    IN /\ Len(turns) = Min(n, k)
       /\ Len(turns) <= k
       /\ \A i \in 1..Len(turns) : IsRecordOfTurn(turns[i], n - Len(turns) + i - 1)
       /\ (pc = "head" /\ n > 0) =>
             LET last == turns[Len(turns)]
             IN /\ last[Len(last)].state = latest.state
                /\ last[Len(last)].full_reset = latest.full_reset
       /\ Len(fl) = SumLen(turns)
       /\ \A i \in 1..Len(turns) : \A j \in 1..Len(turns[i]) :
             fl[SumLen(SubSeq(turns, 1, i - 1)) + j] = turns[i][j]

\* a step that appends keeps the most recent older records, in their order
C2_AppendStep ==
    (appended' # appended) =>
        /\ Len(turns') >= 1
        /\ SubSeq(turns', 1, Len(turns') - 1)
             = SubSeq(turns, Len(turns) - (Len(turns') - 1) + 1, Len(turns))

\* C2: after n completed turns the window holds exactly the min(n, MESSAGE_LIMIT)
\* most recent Turn Records, oldest first (so at most MESSAGE_LIMIT), and
\* flattenTurns is their concatenation in that order, each record giving its
\* prompt, then its output items, then its tool outcome.
C2_Window == [](C2_WindowInv) /\ [][C2_AppendStep]_vars

\* the window is full, older turns were evicted, and it is being flattened
\* for a decision call
C2_Witness ==
    /\ pc = "decide_wait"
    /\ actionCounter > MESSAGE_LIMIT
    /\ Len(turns) = MESSAGE_LIMIT

----------------------------------------------------------------------------
(* C3 *)

\* C3: the loop terminates; it issues at most MAX_ACTIONS decision calls, the
\* action counter never exceeds MAX_ACTIONS, and a loop whose latest frame is
\* WIN stops.
C3_Termination ==
    /\ [](decisions <= MAX_ACTIONS /\ actionCounter <= MAX_ACTIONS)
    /\ <>(pc \in Terminal)
    /\ ((pc = "head" /\ latest.state = "WIN") ~> (pc \in {"won", "budget"}))

\* the budget ran out: MAX_ACTIONS decisions were made and the loop stopped
C3_Witness == pc = "budget" /\ decisions = MAX_ACTIONS /\ actionCounter = MAX_ACTIONS

----------------------------------------------------------------------------
(* C4 *)

C4_WinInv ==
    latest.state = "WIN" =>
        /\ pc \in {"head", "won", "budget"}
        /\ inflight = {}
        /\ (actionCounter > 0 =>
               LET last == turns[Len(turns)]
               IN /\ appended = actionCounter
                  /\ last[1].shows = actionCounter - 1
                  /\ last[Len(last)].state = "WIN")

C4_WinStep ==
    latest.state = "WIN" =>
        /\ latest'.state = "WIN"
        /\ decisions' = decisions
        /\ submissions' = submissions
        /\ inflight' = {}
        /\ turns' = turns

\* C4: once a frame (the first one, or the one turn t returned) is WIN, no
\* decision call and no submission is issued any more; the record of the turn
\* that returned the WIN frame is already in the window.
C4_StopOnWin == [](C4_WinInv) /\ [][C4_WinStep]_vars

\* the loop stopped on a WIN frame that a turn returned
C4_Witness == pc = "won" /\ actionCounter > 0 /\ latest.state = "WIN"

----------------------------------------------------------------------------
(* C5 *)

C5_SequentialInv ==
    /\ Cardinality(inflight) <= 1
    /\ pc = "decide_wait" =>
          /\ Cardinality(DecisionsInFlight) = 1 /\ CmdsInFlight = {}
          /\ decisions = submissions + 1 /\ submissions = appended
    /\ pc = "submit_wait" =>
          /\ Cardinality(CmdsInFlight) = 1 /\ DecisionsInFlight = {}
          /\ \A r \in CmdsInFlight : r.name = pending.actionName
          /\ decisions = submissions /\ submissions = appended + 1
    /\ pc \in {"head", "won", "budget"} =>
          /\ inflight = {}
          /\ decisions = submissions /\ submissions = appended
    /\ pc = "failed" => inflight = {}

C5_SequentialStep ==
    /\ decisions' # decisions =>
          /\ decisions' = decisions + 1
          /\ inflight = {}
          /\ submissions = decisions /\ appended = decisions
          /\ submissions' = submissions
    /\ submissions' # submissions =>
          /\ submissions' = submissions + 1
          /\ decisions' = decisions
          /\ decisions = submissions + 1
          /\ DecisionsInFlight' = {}
    /\ appended' # appended =>
          /\ appended' = appended + 1
          /\ submissions = appended + 1
          /\ decisions' = decisions /\ submissions' = submissions

\* C5: the calls of a session alternate decide, submit, record: a decision is
\* requested only when every earlier turn was submitted and recorded, each
\* decision is followed by one submission of the action it chose, and never
\* are two requests of the session in flight.
C5_Sequential == [](C5_SequentialInv) /\ [][C5_SequentialStep]_vars

\* a second turn's submission is awaited after a recorded first turn
C5_Witness == pc = "submit_wait" /\ appended >= 1 /\ Cardinality(inflight) = 1

----------------------------------------------------------------------------
(* C6 *)

C6_FirstCallInv ==
    /\ pc = "start" => (inflight = {} /\ decisions = 0 /\ submissions = 0 /\ framesLen = 0)
    /\ pc = "reset_wait" =>
          /\ decisions = 0 /\ submissions = 0
          /\ turns = <<>>
          /\ Cardinality(inflight) = 1
          /\ \A r \in inflight :
                r.kind = "cmd" /\ r.name = "RESET" /\ "guid" \notin r.payload.keys
    /\ (decisions > 0 \/ submissions > 0) => framesLen >= 1

C6_FirstCallStep ==
    /\ (pc = "reset_wait" /\ pc' = "head") =>
          /\ framesLen' = 1
          /\ guid' = latest'.guid
    /\ (pc = "start" /\ pc' # pc) => pc' = "reset_wait"

\* C6: the first external call of a session is the RESET submission, made
\* before any decision call, with an empty window and no guid in its payload;
\* the frame it returns is the first frame and its guid is the session token.
C6_FirstCall == [](C6_FirstCallInv) /\ [][C6_FirstCallStep]_vars

\* the initial RESET returned a frame carrying a guid, which is now the token
C6_Witness == pc = "head" /\ framesLen = 1 /\ guid = "g2" /\ decisions = 0

----------------------------------------------------------------------------
(* C7 *)

C7_RecordInv ==
    /\ appended = actionCounter
    /\ appended <= submissions /\ submissions <= decisions
    /\ \A i \in 1..Len(turns) :
          LET rec == turns[i]
          IN /\ rec[1].type = "user" /\ rec[1].shows < actionCounter
             /\ rec[Len(rec)].type = "function_call_output"

C7_RecordStep ==
    /\ turns' # turns => (pc = "submit_wait" /\ pc' = "head" /\ appended' = appended + 1)
    /\ appended' # appended => (pc = "submit_wait" /\ pc' = "head")
    /\ pc' = "failed" => (turns' = turns /\ appended' = appended)

\* C7: a record is appended only when its action was decided and its
\* submission returned; a failed decision or submission leaves no record of
\* that turn, and the number of records appended equals the action counter.
C7_RecordAfterSubmit == [](C7_RecordInv) /\ [][C7_RecordStep]_vars

\* a submission failed after earlier turns were recorded
C7_Witness == pc = "failed" /\ submissions = appended + 1 /\ appended >= 1

----------------------------------------------------------------------------
(* C8 *)

\* C8: the action name submitted in a turn is one of the turn's permitted
\* names (those of the latest frame's available_actions, or the default set,
\* plus RESET); a decision outside that set is submitted as RESET.
C8_SubmittedPermitted ==
    pc = "submit_wait" =>
        \A r \in CmdsInFlight : r.name \in Range(pending.userMessage.allowed)

----------------------------------------------------------------------------
(* C9 *)

\* what the decision response supplied, read off the output items
HasFunctionCall(output) == \E i \in 1..Len(output) : output[i].type = "function_call"

FirstCall(output) ==
    output[CHOOSE i \in 1..Len(output) :
              /\ output[i].type = "function_call"
              /\ \A j \in 1..(i - 1) : output[j].type # "function_call"]

NoUsableAction(output) ==
    \/ ~HasFunctionCall(output)
    \/ FirstCall(output).arguments.form # "object"
    \/ FirstCall(output).arguments.obj.action.t # "string"

\* C9: when the response has no function call, or one whose arguments are
\* unparsable or lack a string action, the turn's action is RESET, a warning
\* is logged, and RESET is submitted.
C9_FallbackWarns ==
    (pc = "submit_wait" /\ NoUsableAction(pending.responseOutputItems)) =>
        /\ pending.actionName = "RESET"
        /\ \A r \in CmdsInFlight : r.name = "RESET"
        /\ warned

----------------------------------------------------------------------------
(* C10 *)

SuppliedArgs == FirstCall(pending.responseOutputItems).arguments.obj

NumericAction6 ==
    /\ pc = "submit_wait"
    /\ HasFunctionCall(pending.responseOutputItems)
    /\ FirstCall(pending.responseOutputItems).arguments.form = "object"
    /\ SuppliedArgs.action = JStr("ACTION6")
    /\ SuppliedArgs.x.t = "number" /\ SuppliedArgs.y.t = "number"

\* a number (in units of 1/Den) that lies in [0, 63]
InCoordRange(v) == CoordMin * Den <= v /\ v <= CoordMax * Den

IsInteger(v) == v % Den = 0

StoredAndSentInRange ==
    /\ pending.actionData.present
    /\ pending.actionData.x \in CoordMin..CoordMax
    /\ pending.actionData.y \in CoordMin..CoordMax
    /\ \A r \in CmdsInFlight :
          /\ {"x", "y"} \subseteq r.payload.keys
          /\ r.payload.x = pending.actionData.x
          /\ r.payload.y = pending.actionData.y
    /\ (SuppliedArgs.x.n = 70 * Den /\ SuppliedArgs.y.n = -1 * Den) =>
          (pending.actionData.x = 63 /\ pending.actionData.y = 0)

StoredEqualsSupplied ==
    /\ pending.actionData.x * Den = SuppliedArgs.x.n
    /\ pending.actionData.y * Den = SuppliedArgs.y.n

\* C10 as stated: for every numeric pair supplied with ACTION6 the stored and
\* sent coordinates lie in [0, 63] and equal the supplied pair whenever that
\* pair was already in [0, 63]; (70, -1) is sent as (63, 0).
C10_ClampAsStated ==
    NumericAction6 =>
        /\ StoredAndSentInRange
        /\ (InCoordRange(SuppliedArgs.x.n) /\ InCoordRange(SuppliedArgs.y.n))
              => StoredEqualsSupplied

\* C10 amended: ... and equal the supplied pair whenever that pair was
\* already a pair of integers in [0, 63] (a fractional coordinate is
\* truncated toward zero).
C10_Clamp ==
    NumericAction6 =>
        /\ StoredAndSentInRange
        /\ (/\ InCoordRange(SuppliedArgs.x.n) /\ IsInteger(SuppliedArgs.x.n)
            /\ InCoordRange(SuppliedArgs.y.n) /\ IsInteger(SuppliedArgs.y.n))
              => StoredEqualsSupplied

\* ACTION6 with x = 70, y = -1 is being submitted
C10_Witness ==
    /\ NumericAction6
    /\ SuppliedArgs.x.n = 70 * Den /\ SuppliedArgs.y.n = -1 * Den
    /\ \E r \in CmdsInFlight : r.payload.x = 63 /\ r.payload.y = 0

----------------------------------------------------------------------------
(* C11 *)

InvalidAction6 ==
    /\ pc = "submit_wait"
    /\ HasFunctionCall(pending.responseOutputItems)
    /\ FirstCall(pending.responseOutputItems).arguments.form = "object"
    /\ SuppliedArgs.action = JStr("ACTION6")
    /\ (SuppliedArgs.x.t # "number" \/ SuppliedArgs.y.t # "number")

\* C11: when ACTION6 is chosen and a coordinate is missing, null or not a
\* number, the turn goes on: (0, 0) replaces both fields and ACTION6 is
\* submitted with x = 0, y = 0.
C11_InvalidCoords ==
    InvalidAction6 =>
        /\ pending.actionName = "ACTION6"
        /\ pending.actionData = Data(0, 0)
        /\ Cardinality(CmdsInFlight) = 1
        /\ \A r \in CmdsInFlight :
              /\ r.name = "ACTION6"
              /\ {"x", "y"} \subseteq r.payload.keys
              /\ r.payload.x = 0 /\ r.payload.y = 0

\* ACTION6 is being submitted with a valid x (70) and a null y
C11_Witness ==
    /\ InvalidAction6
    /\ SuppliedArgs.x = JNum(70 * Den) /\ SuppliedArgs.y = JNull
    /\ \E r \in CmdsInFlight : r.payload.x = 0 /\ r.payload.y = 0

----------------------------------------------------------------------------
(* C12 *)

\* the action and the tool outcome of a record of the window
RecordTool(rec) == rec[Len(rec)]

RecordSupplied(rec) == FirstCall(SubSeq(rec, 2, Len(rec) - 1)).arguments.obj

\* C12: the submission payload and the recorded tool outcome carry x and y
\* exactly when the chosen action is ACTION6; any other chosen action is sent
\* as that action without coordinates and recorded under that name, even when
\* the decision supplied x and y.
C12_CoordsOnlyForAction6 ==
    /\ pc = "submit_wait" =>
          \A r \in CmdsInFlight :
             /\ r.name = SuppliedArgs.action.s
             /\ ({"x", "y"} \subseteq r.payload.keys) <=> (r.name = "ACTION6")
             /\ ({"x", "y"} \cap r.payload.keys # {}) => (r.name = "ACTION6")
    /\ \A i \in 1..Len(turns) :
          /\ RecordTool(turns[i]).action = RecordSupplied(turns[i]).action.s
          /\ RecordTool(turns[i]).data.present <=> (RecordTool(turns[i]).action = "ACTION6")

\* ACTION2 was chosen with x and y supplied, while ACTION1..4 were permitted,
\* and its record holds no coordinates
C12_Witness ==
    /\ Len(turns) >= 1
    /\ RecordSupplied(turns[1]).action = JStr("ACTION2")
    /\ RecordSupplied(turns[1]).x.t = "number"
    /\ RecordSupplied(turns[1]).y.t = "number"
    /\ turns[1][1].allowed = <<"ACTION1", "ACTION2", "ACTION3", "ACTION4", "RESET">>
    /\ ~RecordTool(turns[1]).data.present

----------------------------------------------------------------------------
(* C18 *)

C18_TurnStep ==
    (pc = "submit_wait" /\ pc' = "head" /\ latest'.full_reset) =>
        /\ actionCounter' = actionCounter + 1
        /\ framesLen' = framesLen + 1

C18_HeadStep ==
    (pc = "head" /\ latest.full_reset /\ pc' # pc) =>
        /\ pc' = IF actionCounter >= MAX_ACTIONS THEN "budget"
                 ELSE IF latest.state = "WIN" THEN "won"
                 ELSE "decide_wait"
        /\ actionCounter' = actionCounter
        /\ framesLen' = framesLen

\* C18: a frame with full_reset = true changes the action counter and the
\* frame list only by the turn's own increment and append, and the WIN check
\* and the MAX_ACTIONS check of the next iteration are applied as after any
\* other frame.
C18_FullResetKeepsCounter == [][C18_TurnStep /\ C18_HeadStep]_vars

\* the budget check stopped the loop right after a full-reset frame
C18_Witness ==
    /\ pc = "budget"
    /\ latest.full_reset /\ latest.state # "WIN"
    /\ actionCounter = MAX_ACTIONS

----------------------------------------------------------------------------
(* C20 *)

\* JSON Schema validation of a value against one entry of properties
ValueMatches(prop, v) ==
    \/ "null" \in prop.types /\ v.t = "null"
    \/ /\ "string" \in prop.types /\ v.t = "string"
       /\ (prop.enum # <<>> => SeqHas(prop.enum, v.s))
    \/ /\ "integer" \in prop.types /\ v.t = "number" /\ v.n % Den = 0
       /\ (prop.hasRange => (prop.minimum * Den <= v.n /\ v.n <= prop.maximum * Den))

\* validation of a decision d (its keys, and the values of action, x, y; the
\* text fields are taken to be valid) against the parameters of the tool
SchemaAccepts(params, d) ==
    /\ Range(params.required) \subseteq d.keys
    /\ (~params.additionalProperties => d.keys \subseteq DOMAIN params.properties)
    /\ \A k \in (d.keys \cap DOMAIN params.properties) \cap {"action", "x", "y"} :
          ValueMatches(params.properties[k], d[k])

CandidateKeys ==
    { BaseKeys, BaseKeys \cup {"x", "y"}, BaseKeys \cup {"x"}, BaseKeys \cup {"x", "y", "extra"},
      BaseKeys \cup {"extra"} }

CandidateNames ==
    {"RESET", "ACTION1", "ACTION2", "ACTION3", "ACTION4", "ACTION5", "ACTION6", "ACTION7", "OTHER"}

CandidateCoords ==
    {JNull, JNum(0), JNum(CoordMax * Den), JNum((CoordMax + 1) * Den), JNum(-1 * Den),
     JNum(1), JStr("5")}

Candidates ==
    { [keys |-> ks, action |-> JStr(a), x |-> x, y |-> y] :
        ks \in CandidateKeys, a \in CandidateNames, x \in CandidateCoords, y \in CandidateCoords }

IsCoordOrNull(v) ==
    v.t = "null" \/ (v.t = "number" /\ v.n % Den = 0 /\ 0 <= v.n /\ v.n <= 63 * Den)

\* the parts of C20 about keys, enum and closedness
C20_Shape(S, params) ==
    /\ ~SeqHas(S, "ACTION6") =>
          /\ {"x", "y"} \cap DOMAIN params.properties = {}
          /\ {"x", "y"} \cap Range(params.required) = {}
          /\ \E d \in Candidates : d.keys = BaseKeys /\ SchemaAccepts(params, d)
    /\ SeqHas(S, "ACTION6") =>
          /\ {"x", "y"} \subseteq Range(params.required)
          /\ \A d \in Candidates : SchemaAccepts(params, d) =>
                /\ {"x", "y"} \subseteq d.keys
                /\ IsCoordOrNull(d.x) /\ IsCoordOrNull(d.y)
    /\ params.properties["action"].enum = S
    /\ \A d \in Candidates : SchemaAccepts(params, d) =>
          /\ SeqHas(S, d.action.s)
          /\ "extra" \notin d.keys

\* the part of C20 about null coordinates
C20_NullExactly(S, params) ==
    SeqHas(S, "ACTION6") =>
        \A d \in Candidates : SchemaAccepts(params, d) =>
            ((d.action.s # "ACTION6") <=> (d.x.t = "null" /\ d.y.t = "null"))

\* C20: for every permitted-action list S, a schema without ACTION6 has no x
\* or y property and does not require them; a schema with ACTION6 requires x
\* and y, each an integer in [0, 63] or null, and requires them to be null
\* exactly when another action than ACTION6 is chosen; the action enum is S
\* and additional properties are rejected.
C20_Schema ==
    \A r \in DecisionsInFlight :
        /\ C20_Shape(r.allowed, r.tools.parameters)
        /\ C20_NullExactly(r.allowed, r.tools.parameters)

----------------------------------------------------------------------------
(* C13 *)

\* C13: when SIGINT or SIGTERM is handled while a decision request or an
\* action submission of the running agent is in flight, the step that handles
\* it neither posts the scorecard close nor ends the process: teardown and
\* exit begin only once the turn in flight has completed and been recorded.
C13_InterruptBetweenTurns ==
    [][(mpc = "playing" /\ pc \in {"decide_wait", "submit_wait"} /\ armed' # armed)
         => (closes' = closes /\ exit' = exit)]_vars

----------------------------------------------------------------------------
(* C14 *)

\* C14: in every interleaving of main() with the shutdown handlers, at most
\* one /api/scorecard/close request is posted in a run of the process.
C14_CloseAtMostOnce == closes <= 1

----------------------------------------------------------------------------
(* C15 *)

\* a process that ended after the scorecard was opened posted a close
C15_CloseAttempted == (cardId /\ exit # "running") => closes >= 1

\* the catch block of main() reports the error before it awaits its close
C15_ReportedFirst == mpc = "fail_close_wait" => (reported /\ fatal)

\* when the close of the catch block settles, by a reply or by an error, the
\* report stays and the process ends with status 1
C15_CloseSettleStep ==
    (exit = "running" /\ mpc = "fail_close_wait" /\ mpc' # mpc)
        => (reported' /\ exit' = "exit1")

\* C15: a process that ends after the scorecard was opened (games all played,
\* a session failed, or a signal handled) has posted a scorecard close before
\* it ends; and on the failure path the error is reported before the close is
\* awaited and the process ends with status 1 whether that close returns or
\* throws.
C15_TeardownAttempted ==
    /\ [](C15_CloseAttempted /\ C15_ReportedFirst)
    /\ [][C15_CloseSettleStep]_vars

\* a session failed, the close of the catch block threw, the process ended
\* with status 1
C15_Witness ==
    /\ pc = "failed" /\ mpc = "exiting" /\ exit = "exit1"
    /\ ~shuttingDown /\ closes = 1 /\ reported

----------------------------------------------------------------------------
(* C16 *)

\* the request that throws ends loop() without another call
C16_FailStep ==
    (pc # "failed" /\ pc' = "failed")
        => (inflight' = {} /\ decisions' = decisions /\ submissions' = submissions)

\* after the throw the agent issues nothing, no other agent is started, and
\* the next step of main() is its catch block: the error is reported and the
\* close is posted, or was posted already when shuttingDown is set
C16_AfterFailStep ==
    pc = "failed"
        => /\ pc' = "failed" /\ game' = game
           /\ inflight' = {} /\ decisions' = decisions /\ submissions' = submissions
           /\ mpc = "playing"
                => /\ reported'
                   /\ \/ closes' = closes + 1
                      \/ closes >= 1 /\ exit' = "exit1"

\* C16: when a decision call or an action submission throws, the agent issues
\* no further decision or submission call (no retry), its loop has ended, and
\* main() attempts the scorecard close.
C16_FailureEndsSession ==
    /\ [][C16_FailStep /\ C16_AfterFailStep]_vars
    /\ [](pc = "failed" /\ mpc # "playing" => closes >= 1)

\* the decision call of the second turn threw and the catch block of main()
\* awaits its close
C16_Witness ==
    /\ pc = "failed" /\ decisions = 2 /\ submissions = 1 /\ inflight = {}
    /\ mpc = "fail_close_wait" /\ closes = 1

----------------------------------------------------------------------------
(* C17 *)

\* C17: a process in which an exception was thrown (in loop(), elsewhere in
\* main() such as the post that opens the scorecard, or surfacing as an
\* unhandled rejection) never ends with exit status 0.
C17_FatalExitsNonZero == fatal => exit # "exit0"

----------------------------------------------------------------------------
(* C19 *)

\* every request in flight was issued by the agent of the current game
C19_OwnRequests == \A r \in inflight : r.agent = game

\* main() moves to the next game only from a terminal state of the loop of the
\* current agent, with nothing in flight, and the new agent has issued nothing
C19_NextGameStep ==
    game' # game
        => /\ game' = game + 1
           /\ game = 0 \/ pc \in {"won", "budget", "failed"}
           /\ inflight = {}
           /\ pc' = "start" /\ inflight' = {}

\* C19: the sessions of one process never overlap: the RESET of the next
\* agent is issued only after loop() of the previous agent reached a terminal
\* state, and no request of an earlier agent is in flight or issued once a
\* later agent exists.
C19_SessionsSequential ==
    /\ []C19_OwnRequests
    /\ [][C19_NextGameStep]_vars

\* the RESET of the second agent is in flight
C19_Witness ==
    /\ game = 2 /\ pc = "reset_wait"
    /\ \E r \in inflight : r.kind = "cmd" /\ r.name = "RESET" /\ r.agent = 2

----------------------------------------------------------------------------
(* C21 *)

\* a submission in flight carries the stored token when there is one
C21_PayloadInv ==
    pc = "submit_wait"
        => \A r \in CmdsInFlight :
               guid # "" => ("guid" \in r.payload.keys /\ r.payload.guid = guid)

\* the stored token changes only when a frame arrives that supplies a guid,
\* and then becomes that guid: it is the guid of the most recent frame that
\* supplied one, and is never emptied
C21_TokenStep ==
    /\ guid' = IF framesLen' = framesLen + 1 /\ latest'.guid # ""
               THEN latest'.guid ELSE guid
    /\ guid # "" => guid' # ""

\* C21: once a frame has returned a guid, every later action submission
\* carries the guid of the most recent frame that supplied one, and the stored
\* token is never reset to empty during the session.
C21_TokenCarried == [](C21_PayloadInv) /\ [][C21_TokenStep]_vars

\* the latest frame supplied no guid and the submission in flight carries the
\* guid of the frame before it
C21_Witness ==
    /\ pc = "submit_wait" /\ framesLen = 2 /\ latest.guid = ""
    /\ \E r \in CmdsInFlight : "guid" \in r.payload.keys /\ r.payload.guid = "g2"

----------------------------------------------------------------------------
(* C22 *)

\* the name of identifier id, "" when it has none
C22_NameOf(id) ==
    CASE id = 0 -> "RESET"
      [] id = 1 -> "ACTION1"
      [] id = 2 -> "ACTION2"
      [] id = 3 -> "ACTION3"
      [] id = 4 -> "ACTION4"
      [] id = 5 -> "ACTION5"
      [] id = 6 -> "ACTION6"
      [] id = 7 -> "ACTION7"
      [] OTHER -> ""

C22_Named(ids) == SelectSeq(ids, LAMBDA id : C22_NameOf(id) # "")

\* the list is the names of the identifiers in order, or ACTION1..ACTION4
\* when there are none, followed by RESET
C22_ListAsBuilt(ids, list) ==
    LET named == C22_Named(ids)
        base == IF Len(ids) > 0
                THEN [i \in 1..Len(named) |-> C22_NameOf(named[i])]
                ELSE <<"ACTION1", "ACTION2", "ACTION3", "ACTION4">>
    IN /\ list = Append(base, "RESET")
       /\ \E i \in 1..Len(list) : list[i] = "RESET"

\* the list contains each of its names once
C22_NoRepeat(list) ==
    \A i, j \in 1..Len(list) : i # j => list[i] # list[j]

\* C22: the permitted-action list of a decision request is the names of the
\* latest frame's available_actions identifiers in order followed by RESET,
\* or ACTION1..ACTION4 followed by RESET when the frame has no identifiers;
\* RESET is in the list, and no name is in the list twice.
C22_PermittedList ==
    \A r \in DecisionsInFlight :
        /\ C22_ListAsBuilt(latest.available_actions, r.allowed)
        /\ C22_NoRepeat(r.allowed)

----------------------------------------------------------------------------
(* C23 *)

\* at the while test, one frame is stored per returned submission plus the
\* frame of the initial RESET, and every submission issued has returned
C23_HeadInv ==
    pc = "head"
        => /\ framesLen = actionCounter + 1
           /\ actionCounter = submissions

\* while a submission is awaited, or after it threw, it is the only one
\* issued that has not been counted
C23_CountInv ==
    /\ pc \in {"start", "reset_wait"} => (actionCounter = 0 /\ submissions = 0)
    /\ pc = "submit_wait" => actionCounter = submissions - 1
    /\ pc = "decide_wait" => actionCounter = submissions

\* the counter grows by one in the step in which a submission of a turn
\* returns, and is unchanged in every other step
C23_CountStep ==
    IF pc = "submit_wait" /\ pc' = "head"
    THEN actionCounter' = actionCounter + 1 /\ framesLen' = framesLen + 1
    ELSE actionCounter' = actionCounter

\* C23: at the start of every loop iteration the number of stored frames is
\* actionCounter + 1 and actionCounter is the number of submissions after the
\* initial RESET that returned; actionCounter grows by exactly one per
\* completed turn and never decreases.
C23_CounterLaw == [](C23_HeadInv /\ C23_CountInv) /\ [][C23_CountStep]_vars

\* the loop is at its while test after two turns, the second of which
\* returned a frame with full_reset
C23_Witness ==
    /\ pc = "head" /\ actionCounter = 2 /\ framesLen = 3 /\ submissions = 2
    /\ latest.full_reset

====
